---- MODULE Spec2Model ----
(***************************************************************************)
(* Model of three units of MPD:                                            *)
(*   src/src/dbUtils.c              locate criteria, matchers, operations  *)
(*   src/src/PlaylistDatabase.cxx   playlist metadata save / load          *)
(*   src/src/output/AoOutputPlugin.cxx   libao reference counting          *)
(* C strings are sequences of one-character strings.                       *)
(***************************************************************************)
EXTENDS Integers, Sequences, FiniteSets, TLC

VARIABLES
    \* dbUtils.c, criterion set construction
    bpc, argArray, arrayRet, buildRet, heap, calls,
    \* dbUtils.c, operations over the catalog
    qpc, songTags, tagTracker, trackerCalls, op, ret, out, playlist,
    \* PlaylistDatabase.cxx
    ppc, pv, stream, streamFrom, filePos, loadName, loadError, loaded,
    \* AoOutputPlugin.cxx
    ao_output_ref, aoLive, aoInitialized, aoLast

buildVars == <<bpc, argArray, arrayRet, buildRet, heap, calls>>
queryVars == <<qpc, songTags, tagTracker, trackerCalls, op, ret, out, playlist>>
plVars    == <<ppc, pv, stream, streamFrom, filePos, loadName, loadError, loaded>>
aoVars    == <<ao_output_ref, aoLive, aoInitialized, aoLast>>
vars      == <<buildVars, queryVars, plVars, aoVars>>

----------------------------------------------------------------------------
(* C library string functions *)

LowerCase == <<"a","b","c","d","e","f","g","h","i","j","k","l","m",
               "n","o","p","q","r","s","t","u","v","w","x","y","z">>
UpperCase == <<"A","B","C","D","E","F","G","H","I","J","K","L","M",
               "N","O","P","Q","R","S","T","U","V","W","X","Y","Z">>

tolower(c) ==
    IF \E i \in 1..26 : UpperCase[i] = c
    THEN LowerCase[CHOOSE i \in 1..26 : UpperCase[i] = c]
    ELSE c

toupper(c) ==
    IF \E i \in 1..26 : LowerCase[i] = c
    THEN UpperCase[CHOOSE i \in 1..26 : LowerCase[i] = c]
    ELSE c

\* strcasecmp(a, b) == 0
strcasecmpEq(a, b) ==
    /\ Len(a) = Len(b)
    /\ \A i \in 1..Len(a) : tolower(a[i]) = tolower(b[i])

\* strcmp(a, b) == 0
strcmpEq(a, b) ==
    /\ Len(a) = Len(b)
    /\ \A i \in 1..Len(a) : a[i] = b[i]

\* strstr(hay, needle) != NULL
strstrFound(hay, needle) ==
    \E k \in 0..(Len(hay) - Len(needle)) :
        \A i \in 1..Len(needle) : hay[k + i] = needle[i]

\* strchr(line, c): 1-based position of the first c, 0 when absent
strchr(line, c) ==
    IF \E i \in 1..Len(line) : line[i] = c
    THEN CHOOSE i \in 1..Len(line) :
            line[i] = c /\ \A j \in 1..(i - 1) : line[j] # c
    ELSE 0

strDupToUpper(s) == [i \in 1..Len(s) |-> toupper(s[i])]

----------------------------------------------------------------------------
(* dbUtils.c: tag type resolution *)

mpdTagItemKeys ==
    << <<"A","r","t","i","s","t">>,
       <<"A","l","b","u","m">>,
       <<"T","i","t","l","e">>,
       <<"T","r","a","c","k">>,
       <<"N","a","m","e">>,
       <<"G","e","n","r","e">>,
       <<"D","a","t","e">>,
       <<"C","o","m","p","o","s","e","r">>,
       <<"P","e","r","f","o","r","m","e","r">>,
       <<"C","o","m","m","e","n","t">>,
       <<"D","i","s","c">> >>

TAG_NUM_OF_ITEM_TYPES == Len(mpdTagItemKeys)

LOCATE_TAG_FILE_TYPE == TAG_NUM_OF_ITEM_TYPES + 10
SONG_FILE == <<"f","i","l","e">>
LOCATE_TAG_FILE_KEY == SONG_FILE
LOCATE_TAG_FILE_KEY_OLD == <<"f","i","l","e","n","a","m","e">>
LOCATE_TAG_ANY_TYPE == TAG_NUM_OF_ITEM_TYPES + 20
LOCATE_TAG_ANY_KEY == <<"a","n","y">>

getLocateTagItemType(str) ==
    IF strcasecmpEq(str, LOCATE_TAG_FILE_KEY)
       \/ strcasecmpEq(str, LOCATE_TAG_FILE_KEY_OLD)
    THEN LOCATE_TAG_FILE_TYPE
    ELSE IF strcasecmpEq(str, LOCATE_TAG_ANY_KEY)
    THEN LOCATE_TAG_ANY_TYPE
    ELSE IF \E i \in 0..(TAG_NUM_OF_ITEM_TYPES - 1) :
                strcasecmpEq(str, mpdTagItemKeys[i + 1])
    THEN CHOOSE i \in 0..(TAG_NUM_OF_ITEM_TYPES - 1) :
            /\ strcasecmpEq(str, mpdTagItemKeys[i + 1])
            /\ \A j \in 0..(i - 1) : ~strcasecmpEq(str, mpdTagItemKeys[j + 1])
    ELSE -1

----------------------------------------------------------------------------
(* dbUtils.c: criterion set construction.                                  *)
(* The heap is the sequence of blocks handed out by xmalloc / xstrdup;     *)
(* a pointer is an index into it, NULL is 0.  Every block counts the       *)
(* free() calls made on it.  The build state b carries the heap, the       *)
(* caller's result pointer and the trace of resolver calls.                *)

NULL == 0
\* value of the caller's result pointer before the call
CALLER == -1
\* content of a field of a block that xmalloc returned and nobody wrote yet
UNINIT == -2

MaxArgs == 4

xmalloc(h, block) == Append(h, block)

free(h, p) == [h EXCEPT ![p].frees = @ + 1]

initLocateTagItem(b, idx, typeStr, needle) ==
    LET t  == getLocateTagItemType(typeStr)
        b1 == [b EXCEPT !.calls = Append(@, typeStr),
                        !.heap[b.arrayRet].items[idx].tagType = t]
    IN  IF t < 0
        THEN [b1 EXCEPT !.rc = -1]
        ELSE LET h2 == xmalloc(b1.heap,
                          [kind |-> "needle", str |-> needle, frees |-> 0])
             IN  [b1 EXCEPT !.heap = [h2 EXCEPT
                                ![b.arrayRet].items[idx].needle = Len(h2)],
                            !.rc = 0]

RECURSIVE BuildLoopShort(_, _, _)
\* BuildLoop stopping one pair early
BuildLoopShort(b, args, i) ==
    IF i < Len(args) \div 2 - 1
    THEN LET b1 == initLocateTagItem(b, i + 1, args[i * 2 + 1], args[i * 2 + 2])
         IN  IF b1.rc < 0
             THEN [b1 EXCEPT !.failed = TRUE, !.i = i]
             ELSE BuildLoopShort(b1, args, i + 1)
    ELSE [b EXCEPT !.failed = FALSE, !.i = i]

RECURSIVE BuildLoop(_, _, _)
\* the for loop at lines 119-123; yields the state and the index i reached
BuildLoop(b, args, i) ==
    IF i < Len(args) \div 2
    THEN LET b1 == initLocateTagItem(b, i + 1, args[i * 2 + 1], args[i * 2 + 2])
         IN  IF b1.rc < 0
             THEN [b1 EXCEPT !.failed = TRUE, !.i = i]
             ELSE BuildLoop(b1, args, i + 1)
    ELSE [b EXCEPT !.failed = FALSE, !.i = i]

RECURSIVE FailLoopShort(_, _, _, _)
\* FailLoop leaving the needle of the last initialised pair allocated
FailLoopShort(h, array, j, i) ==
    IF j < i - 1
    THEN FailLoopShort(free(h, h[array].items[j + 1].needle), array, j + 1, i)
    ELSE h

RECURSIVE FailLoop(_, _, _, _)
\* the loop at lines 128-130
FailLoop(h, array, j, i) ==
    IF j < i
    THEN FailLoop(free(h, h[array].items[j + 1].needle), array, j + 1, i)
    ELSE h

newLocateTagItemArrayFromArgArray(b, args) ==
    LET numArgs == Len(args)
    IN  IF numArgs = 0
        THEN [b EXCEPT !.rc = 0]
        ELSE IF numArgs % 2 # 0
        THEN [b EXCEPT !.rc = -1]
        ELSE
          LET h1 == xmalloc(b.heap,
                      [kind  |-> "array",
                       items |-> [k \in 1..(numArgs \div 2) |->
                                    [tagType |-> UNINIT, needle |-> UNINIT]],
                       frees |-> 0])
              b1 == [b EXCEPT !.heap = h1, !.arrayRet = Len(h1)]
              b2 == BuildLoop(b1, args, 0)
          IN  IF ~b2.failed
              THEN [b2 EXCEPT !.rc = numArgs \div 2]
              ELSE LET h3 == FailLoop(b2.heap, b2.arrayRet, 0, b2.i)
                       h4 == free(h3, b2.arrayRet)
                   IN  [b2 EXCEPT !.heap = h4, !.arrayRet = NULL, !.rc = -1]

RECURSIVE FreeItems(_, _, _, _)
FreeItems(h, array, i, count) ==
    IF i < count
    THEN FreeItems(free(h, h[array].items[i + 1].needle), array, i + 1, count)
    ELSE h

freeLocateTagItemArray(h, count, array) ==
    free(FreeItems(h, array, 0, count), array)

\* command-line tokens offered to the builder
Tokens ==
    { <<"a","r","t","i","s","t">>, <<"A","L","B","U","M">>,
      <<"F","i","l","e">>, <<"a","n","y">>,
      <<"b","a","d","k","e","y">>, <<"x">> }

RECURSIVE SeqsUpTo(_, _)
SeqsUpTo(S, n) ==
    IF n = 0 THEN { <<>> }
    ELSE LET prev == SeqsUpTo(S, n - 1)
         IN  prev \cup { Append(s, x) : s \in { t \in prev : Len(t) = n - 1 }, x \in S }

BuildInit ==
    /\ bpc = "idle"
    /\ argArray = <<>>
    /\ arrayRet = CALLER
    /\ buildRet = 0
    /\ heap = <<>>
    /\ calls = <<>>

Build ==
    /\ bpc = "idle"
    /\ \E args \in SeqsUpTo(Tokens, MaxArgs) :
          LET b == newLocateTagItemArrayFromArgArray(
                      [heap |-> heap, arrayRet |-> arrayRet, calls |-> calls,
                       rc |-> 0, failed |-> FALSE, i |-> 0], args)
          IN  /\ argArray' = args
              /\ heap' = b.heap
              /\ arrayRet' = b.arrayRet
              /\ calls' = b.calls
              /\ buildRet' = b.rc
    /\ bpc' = "built"
    /\ UNCHANGED <<queryVars, plVars, aoVars>>

\* the caller releases a set it was given
Release ==
    /\ bpc = "built"
    /\ buildRet > 0
    /\ heap' = freeLocateTagItemArray(heap, buildRet, arrayRet)
    /\ bpc' = "released"
    /\ UNCHANGED <<argArray, arrayRet, buildRet, calls>>
    /\ UNCHANGED <<queryVars, plVars, aoVars>>

\* the request ends; the next one starts with a fresh result pointer
BuildDone ==
    /\ \/ bpc = "released"
       \/ bpc = "built" /\ buildRet <= 0
    /\ bpc' = "idle"
    /\ argArray' = <<>>
    /\ arrayRet' = CALLER
    /\ buildRet' = 0
    /\ heap' = <<>>
    /\ calls' = <<>>
    /\ UNCHANGED <<queryVars, plVars, aoVars>>

----------------------------------------------------------------------------
(* The catalog read by the operations.  A directory has a path (empty for  *)
(* the root), songs and sub-directories; a song has an URL and an optional *)
(* tag: an ordered list of (type, value) items and a time, negative when   *)
(* unknown.  The tree is fixed, the tags are chosen by Init.               *)

NoPath == <<>>
NoTag == [present |-> FALSE, items |-> <<>>, time |-> -1]

Directories ==
    [ root |-> [path |-> NoPath, songs |-> <<1>>, subDirectories |-> <<"r", "e">>],
      r    |-> [path |-> <<"r">>, songs |-> <<2, 3>>, subDirectories |-> <<>>],
      e    |-> [path |-> <<"e">>, songs |-> <<>>, subDirectories |-> <<>>] ]

SongIds == {1, 2, 3}

getSongUrl(song) ==
    CASE song = 1 -> <<"a","c">>
      [] song = 2 -> <<"r","/","a">>
      [] song = 3 -> <<"r","/","A","C">>

MaxTagItems == 2
MaxCriteria == 2

ItemTypes == {0, 1}
ItemValues == { <<"a","c">>, <<"A","C">> }
TagItems == [type : ItemTypes, value : ItemValues]
TagTimes == {-1, 180}
TagsWith(times) ==
    {NoTag} \cup
    [present : {TRUE}, items : SeqsUpTo(TagItems, MaxTagItems), time : times]

\* songs whose tag Init chooses freely; the others carry FixedTags
FreeSongs == {1}
FixedTags ==
    [s \in SongIds |->
        IF s = 2
        THEN [present |-> TRUE,
              items |-> << [type |-> 0, value |-> <<"a","c">>],
                           [type |-> 1, value |-> <<"a","c">>] >>,
              time |-> 180]
        ELSE NoTag]

Needles == { <<"a","c">>, <<"A","C">> }
CriterionTypes == {0, LOCATE_TAG_FILE_TYPE, LOCATE_TAG_ANY_TYPE}
LocateTagItems == [tagType : CriterionTypes, needle : Needles]
CriterionSets == SeqsUpTo(LocateTagItems, MaxCriteria)
RootNames == { NoPath, <<"r">>, <<"e">>, <<"x">> }
\* the roots offered to search and find
LocateRoots == { NoPath, <<"r">>, <<"x">> }
\* the conditionals and the types offered to listAllUniqueTags
ListConditionals ==
    { [tagType |-> 0, needle |-> <<"a","c">>],
      [tagType |-> 1, needle |-> <<"A","C">>],
      [tagType |-> LOCATE_TAG_FILE_TYPE, needle |-> <<"r","/","a">>],
      [tagType |-> LOCATE_TAG_ANY_TYPE, needle |-> <<"a","c">>] }
ListConditionalSets == SeqsUpTo(ListConditionals, MaxCriteria)
ListTypes == {-1, 0, 1, TAG_NUM_OF_ITEM_TYPES,
              LOCATE_TAG_FILE_TYPE, LOCATE_TAG_ANY_TYPE}

\* directory.c getDirectory: the directory named, "none" when there is none
getDirectory(name) ==
    IF \E d \in DOMAIN Directories : strcmpEq(Directories[d].path, name)
    THEN CHOOSE d \in DOMAIN Directories : strcmpEq(Directories[d].path, name)
    ELSE "none"

RECURSIVE SubDirEvents(_, _)
RECURSIVE traverseOrder(_)
\* depth-first: the directory, its songs, then its sub-directories in order
traverseOrder(d) ==
    << [dir |-> d, song |-> 0] >>
    \o [i \in 1..Len(Directories[d].songs) |->
            [dir |-> d, song |-> Directories[d].songs[i]]]
    \o SubDirEvents(Directories[d].subDirectories, 1)
SubDirEvents(subs, i) ==
    IF i > Len(subs) THEN <<>>
    ELSE traverseOrder(subs[i]) \o SubDirEvents(subs, i + 1)

----------------------------------------------------------------------------
(* tagTracker: the distinct-value collector, one list of values per tag    *)
(* type.  A type that is no index of the table has no list.                *)

TrackerEmpty == [t \in 0..(TAG_NUM_OF_ITEM_TYPES - 1) |-> <<>>]

InSeq(s, x) == \E i \in 1..Len(s) : s[i] = x

resetVisitedFlagsInTagTracker(c, type) ==
    LET c1 == [c EXCEPT !.calls = Append(@, [fn |-> "reset", type |-> type])]
    IN  IF type \in DOMAIN c.tracker
        THEN [c1 EXCEPT !.tracker[type] = <<>>]
        ELSE c1

visitInTagTracker(c, type, str) ==
    IF type \in DOMAIN c.tracker /\ ~InSeq(c.tracker[type], str)
    THEN [c EXCEPT !.tracker[type] = Append(@, str)]
    ELSE c

printVisitedInTagTracker(c, type) ==
    LET c1 == [c EXCEPT !.calls = Append(@, [fn |-> "print", type |-> type])]
    IN  IF type \in DOMAIN c.tracker
        THEN [c1 EXCEPT !.out = @ \o
                [i \in 1..Len(c.tracker[type]) |->
                    [kind |-> "tag", type |-> type, val |-> c.tracker[type][i]]]]
        ELSE c1

----------------------------------------------------------------------------
(* dbUtils.c: matchers *)

RECURSIVE strstrItems(_, _, _, _)
\* the loop at lines 186-196
strstrItems(tag, type, str, i) ==
    IF i > Len(tag.items) THEN 0
    ELSE IF type # LOCATE_TAG_ANY_TYPE /\ tag.items[i].type # type
    THEN strstrItems(tag, type, str, i + 1)
    ELSE IF strstrFound(strDupToUpper(tag.items[i].value), str)
    THEN 1
    ELSE strstrItems(tag, type, str, i + 1)

strstrSearchTag(tags, song, type, str) ==
    LET urlRet == IF strstrFound(strDupToUpper(getSongUrl(song)), str) THEN 1 ELSE 0
    IN  IF (type = LOCATE_TAG_FILE_TYPE \/ type = LOCATE_TAG_ANY_TYPE)
           /\ (urlRet = 1 \/ type = LOCATE_TAG_FILE_TYPE)
        THEN urlRet
        ELSE IF ~tags[song].present
        THEN 0
        ELSE strstrItems(tags[song], type, str, 1)

RECURSIVE matchItems(_, _, _, _)
\* the loop at lines 260-268
matchItems(tag, type, str, i) ==
    IF i > Len(tag.items) THEN 0
    ELSE IF type # LOCATE_TAG_ANY_TYPE /\ tag.items[i].type # type
    THEN matchItems(tag, type, str, i + 1)
    ELSE IF strcmpEq(str, tag.items[i].value)
    THEN 1
    ELSE matchItems(tag, type, str, i + 1)

\* tagItemFoundAndMatches comparing the URL with strcasecmp
tagItemFoundAndMatchesNoCase(tags, song, type, str) ==
    IF (type = LOCATE_TAG_FILE_TYPE \/ type = LOCATE_TAG_ANY_TYPE)
       /\ strcasecmpEq(str, getSongUrl(song))
    THEN 1
    ELSE IF type = LOCATE_TAG_FILE_TYPE
    THEN 0
    ELSE IF ~tags[song].present
    THEN 0
    ELSE matchItems(tags[song], type, str, 1)

tagItemFoundAndMatches(tags, song, type, str) ==
    IF (type = LOCATE_TAG_FILE_TYPE \/ type = LOCATE_TAG_ANY_TYPE)
       /\ strcmpEq(str, getSongUrl(song))
    THEN 1
    ELSE IF type = LOCATE_TAG_FILE_TYPE
    THEN 0
    ELSE IF ~tags[song].present
    THEN 0
    ELSE matchItems(tags[song], type, str, 1)

----------------------------------------------------------------------------
(* dbUtils.c: visitors.  A visitor takes the context c (the output written *)
(* to fd, the accumulators the data pointer refers to, the playlists and   *)
(* the tag tracker) and yields it with the visitor's return code in rc.    *)

Line(kind, val) == [kind |-> kind, type |-> -1, val |-> val]

printSongInfo(c, song) == [c EXCEPT !.out = Append(@, Line("song", getSongUrl(song))), !.rc = 0]

printSongUrl(c, song) == [c EXCEPT !.out = Append(@, Line("file", getSongUrl(song))), !.rc = 0]

addSongToPlaylist(c, song) ==
    [c EXCEPT !.playlist = Append(@, [list |-> <<>>, url |-> getSongUrl(song)]), !.rc = 0]

addSongToStoredPlaylist(c, song, utf8file) ==
    [c EXCEPT !.playlist = Append(@, [list |-> utf8file, url |-> getSongUrl(song)]), !.rc = 0]

countSongsInDirectory(c, directory) ==
    [c EXCEPT !.count = @ + Len(Directories[directory].songs), !.rc = 0]

printDirectoryInDirectory(c, directory) ==
    IF Directories[directory].path # NoPath
    THEN [c EXCEPT !.out = Append(@, Line("directory", Directories[directory].path)),
                   !.rc = 0]
    ELSE [c EXCEPT !.rc = 0]

printSongInDirectory(c, song) == [printSongUrl(c, song) EXCEPT !.rc = 0]

RECURSIVE searchLoop(_, _, _, _)
\* the loop at lines 206-211: TRUE when every item is found
searchLoop(c, song, array, i) ==
    IF i > array.numItems THEN TRUE
    ELSE IF strstrSearchTag(c.tags, song, array.items[i].tagType,
                            array.items[i].needle) = 0
    THEN FALSE
    ELSE searchLoop(c, song, array, i + 1)

searchInDirectory(c, song, array) ==
    IF searchLoop(c, song, array, 1)
    THEN [printSongInfo(c, song) EXCEPT !.rc = 0]
    ELSE [c EXCEPT !.rc = 0]

RECURSIVE findLoop(_, _, _, _, _)
\* the loop at lines 278-283 and at lines 410-415
findLoop(c, song, items, numItems, i) ==
    IF i > numItems THEN TRUE
    ELSE IF tagItemFoundAndMatches(c.tags, song, items[i].tagType,
                                   items[i].needle) = 0
    THEN FALSE
    ELSE findLoop(c, song, items, numItems, i + 1)

findInDirectory(c, song, array) ==
    IF findLoop(c, song, array.items, array.numItems, 1)
    THEN [printSongInfo(c, song) EXCEPT !.rc = 0]
    ELSE [c EXCEPT !.rc = 0]

directoryAddSongToPlaylist(c, song) == addSongToPlaylist(c, song)

directoryAddSongToStoredPlaylist(c, song, data) == addSongToStoredPlaylist(c, song, data)

directoryPrintSongInfo(c, song) == printSongInfo(c, song)

sumSongTime(c, song) ==
    IF c.tags[song].present /\ c.tags[song].time >= 0
    THEN [c EXCEPT !.time = @ + c.tags[song].time, !.rc = 0]
    ELSE [c EXCEPT !.rc = 0]

RECURSIVE visitTagLoop(_, _, _, _)
\* the loop at lines 398-402
visitTagLoop(c, tag, tagType, i) ==
    IF i > Len(tag.items) THEN c
    ELSE IF tag.items[i].type = tagType
    THEN visitTagLoop(visitInTagTracker(c, tagType, tag.items[i].value),
                      tag, tagType, i + 1)
    ELSE visitTagLoop(c, tag, tagType, i + 1)

visitTag(c, song, tagType) ==
    IF tagType = LOCATE_TAG_FILE_TYPE
    THEN printSongUrl(c, song)
    ELSE IF ~c.tags[song].present
    THEN c
    ELSE visitTagLoop(c, c.tags[song], tagType, 1)

listUniqueTagsInDirectory(c, song, item) ==
    IF findLoop(c, song, item.conditionals, item.numConditionals, 1)
    THEN [visitTag(c, song, item.tagType) EXCEPT !.rc = 0]
    ELSE [c EXCEPT !.rc = 0]

\* a call through the forEachSong pointer
forEachSong(fn, c, song, data) ==
    CASE fn = "searchInDirectory" -> searchInDirectory(c, song, data)
      [] fn = "findInDirectory" -> findInDirectory(c, song, data)
      [] fn = "printSongInDirectory" -> printSongInDirectory(c, song)
      [] fn = "directoryAddSongToPlaylist" -> directoryAddSongToPlaylist(c, song)
      [] fn = "directoryAddSongToStoredPlaylist" ->
             directoryAddSongToStoredPlaylist(c, song, data)
      [] fn = "directoryPrintSongInfo" -> directoryPrintSongInfo(c, song)
      [] fn = "sumSongTime" -> sumSongTime(c, song)
      [] fn = "listUniqueTagsInDirectory" -> listUniqueTagsInDirectory(c, song, data)

\* a call through the forEachDir pointer
forEachDir(fn, c, directory, data) ==
    CASE fn = "countSongsInDirectory" -> countSongsInDirectory(c, directory)
      [] fn = "printDirectoryInDirectory" -> printDirectoryInDirectory(c, directory)

RECURSIVE Walk(_, _, _, _, _, _)
Walk(c, events, i, songFn, dirFn, data) ==
    IF i > Len(events) THEN [c EXCEPT !.rc = 0]
    ELSE LET ev == events[i]
             c1 == IF ev.song = 0
                   THEN IF dirFn = "NULL" THEN [c EXCEPT !.rc = 0]
                        ELSE forEachDir(dirFn, c, ev.dir, data)
                   ELSE IF songFn = "NULL" THEN [c EXCEPT !.rc = 0]
                        ELSE forEachSong(songFn, c, ev.song, data)
         IN  IF c1.rc # 0 THEN c1
             ELSE Walk(c1, events, i + 1, songFn, dirFn, data)

\* directory.c traverseAllIn: -1 and no visit when name is no directory
traverseAllIn(c, name, songFn, dirFn, data) ==
    LET directory == getDirectory(name)
    IN  IF directory = "none"
        THEN [c EXCEPT !.rc = -1]
        ELSE Walk(c, traverseOrder(directory), 1, songFn, dirFn, data)

----------------------------------------------------------------------------
(* dbUtils.c: operations.  Each yields the context with the value the      *)
(* operation returns in rc.                                                *)

\* searchForSongsIn handing the needles to the visitor as they came
searchForSongsInRawNeedles(c, name, numItems, items) ==
    LET array == [numItems |-> numItems, items |-> items]
    IN  traverseAllIn(c, name, "searchInDirectory", "NULL", array)

searchForSongsIn(c, name, numItems, items) ==
    LET upper == [i \in 1..numItems |->
                    [items[i] EXCEPT !.needle = strDupToUpper(items[i].needle)]]
        array == [numItems |-> numItems, items |-> upper]
    IN  traverseAllIn(c, name, "searchInDirectory", "NULL", array)

findSongsIn(c, name, numItems, items) ==
    LET array == [numItems |-> numItems, items |-> items]
    IN  traverseAllIn(c, name, "findInDirectory", "NULL", array)

printAllIn(c, name) ==
    traverseAllIn(c, name, "printSongInDirectory", "printDirectoryInDirectory", NULL)

addAllIn(c, name) ==
    traverseAllIn(c, name, "directoryAddSongToPlaylist", "NULL", NULL)

addAllInToStoredPlaylist(c, name, utf8file) ==
    traverseAllIn(c, name, "directoryAddSongToStoredPlaylist", "NULL", utf8file)

printInfoForAllIn(c, name) ==
    traverseAllIn(c, name, "directoryPrintSongInfo", "printDirectoryInDirectory", NULL)

countSongsIn(c, name) ==
    LET c1 == traverseAllIn([c EXCEPT !.count = 0], name,
                            "NULL", "countSongsInDirectory", NULL)
    IN  [c1 EXCEPT !.rc = c1.count]

sumSongTimesIn(c, name) ==
    LET c1 == traverseAllIn([c EXCEPT !.time = 0], name, "sumSongTime", "NULL", NULL)
    IN  [c1 EXCEPT !.rc = c1.time]

\* conversion of an int to the mpd_sint8 field of ListCommandItem
sint8(n) == ((n + 128) % 256) - 128

newListCommandItem(tagType, numConditionals, conditionals) ==
    [tagType |-> sint8(tagType), numConditionals |-> numConditionals,
     conditionals |-> conditionals]

\* listAllUniqueTags without the reset of the visited flags
listAllUniqueTagsNoReset(c, type, numConditionals, conditionals) ==
    LET item == newListCommandItem(type, numConditionals, conditionals)
        c2 == traverseAllIn(c, NoPath, "listUniqueTagsInDirectory", "NULL", item)
        c3 == IF type >= 0 /\ type <= TAG_NUM_OF_ITEM_TYPES
              THEN printVisitedInTagTracker(c2, type)
              ELSE c2
    IN  [c3 EXCEPT !.rc = c2.rc]

listAllUniqueTags(c, type, numConditionals, conditionals) ==
    LET item == newListCommandItem(type, numConditionals, conditionals)
        c1 == IF type >= 0 /\ type <= TAG_NUM_OF_ITEM_TYPES
              THEN resetVisitedFlagsInTagTracker(c, type)
              ELSE c
        c2 == traverseAllIn(c1, NoPath, "listUniqueTagsInDirectory", "NULL", item)
        c3 == IF type >= 0 /\ type <= TAG_NUM_OF_ITEM_TYPES
              THEN printVisitedInTagTracker(c2, type)
              ELSE c2
    IN  [c3 EXCEPT !.rc = c2.rc]

----------------------------------------------------------------------------
(* The requests served over the catalog *)

NoOp == [name |-> "none", root |-> NoPath, items |-> <<>>, type |-> -1]

Catalogs(times) ==
    { t \in [SongIds -> TagsWith(times) \cup {FixedTags[s] : s \in SongIds}] :
        /\ \A s \in SongIds \ FreeSongs : t[s] = FixedTags[s]
        /\ \A s \in FreeSongs : t[s] \in TagsWith(times) }

QueryInitWith(times) ==
    /\ qpc = "idle"
    /\ songTags \in Catalogs(times)
    /\ tagTracker = TrackerEmpty
    /\ trackerCalls = <<>>
    /\ op = NoOp
    /\ ret = 0
    /\ out = <<>>
    /\ playlist = <<>>

QueryInit == QueryInitWith(TagTimes)

\* the time of a song plays no part in listAllUniqueTags
ListInit == QueryInitWith({180})

Context ==
    [out |-> <<>>, count |-> 0, time |-> 0, playlist |-> playlist,
     tracker |-> tagTracker, calls |-> <<>>, tags |-> songTags, rc |-> 0]

Finish(c, o) ==
    /\ qpc = "idle"
    /\ qpc' = "done"
    /\ op' = o
    /\ ret' = c.rc
    /\ out' = c.out
    /\ playlist' = c.playlist
    /\ tagTracker' = c.tracker
    /\ trackerCalls' = c.calls
    /\ UNCHANGED songTags
    /\ UNCHANGED <<buildVars, plVars, aoVars>>

Search ==
    \E name \in LocateRoots, items \in CriterionSets :
        Finish(searchForSongsIn(Context, name, Len(items), items),
               [name |-> "search", root |-> name, items |-> items, type |-> -1])

Find ==
    \E name \in LocateRoots, items \in CriterionSets :
        Finish(findSongsIn(Context, name, Len(items), items),
               [name |-> "find", root |-> name, items |-> items, type |-> -1])

PrintAll ==
    \E name \in RootNames :
        Finish(printAllIn(Context, name),
               [name |-> "listall", root |-> name, items |-> <<>>, type |-> -1])

PrintInfoForAll ==
    \E name \in RootNames :
        Finish(printInfoForAllIn(Context, name),
               [name |-> "listallinfo", root |-> name, items |-> <<>>, type |-> -1])

AddAll ==
    \E name \in RootNames :
        Finish(addAllIn(Context, name),
               [name |-> "add", root |-> name, items |-> <<>>, type |-> -1])

AddAllToStored ==
    \E name \in RootNames :
        Finish(addAllInToStoredPlaylist(Context, name, <<"p">>),
               [name |-> "playlistadd", root |-> name, items |-> <<>>, type |-> -1])

CountSongs ==
    \E name \in RootNames :
        Finish(countSongsIn(Context, name),
               [name |-> "count", root |-> name, items |-> <<>>, type |-> -1])

SumSongTimes ==
    \E name \in RootNames :
        Finish(sumSongTimesIn(Context, name),
               [name |-> "sum", root |-> name, items |-> <<>>, type |-> -1])

ListUnique ==
    \E type \in ListTypes, items \in ListConditionalSets :
        Finish(listAllUniqueTags(Context, type, Len(items), items),
               [name |-> "list", root |-> NoPath, items |-> items, type |-> type])

\* the response is sent; the tag tracker keeps its state for the next request
QueryDone ==
    /\ qpc = "done"
    /\ qpc' = "idle"
    /\ op' = NoOp
    /\ ret' = 0
    /\ out' = <<>>
    /\ playlist' = <<>>
    /\ trackerCalls' = <<>>
    /\ UNCHANGED <<songTags, tagTracker>>
    /\ UNCHANGED <<buildVars, plVars, aoVars>>

QueryNext ==
    \/ Search \/ Find \/ PrintAll \/ PrintInfoForAll \/ AddAll \/ AddAllToStored
    \/ CountSongs \/ SumSongTimes \/ QueryDone

ListNext == ListUnique \/ QueryDone

----------------------------------------------------------------------------
(* PlaylistDatabase.cxx.  A text file is a sequence of lines; a time point *)
(* is a number of whole seconds since the epoch, as time_t is.             *)

\* stands for std::chrono::system_clock::time_point::min(), "not set"
TimePointMin == -2000000000

IsNegative(tp) == tp < 0

to_time_t(tp) == tp

from_time_t(t) == t

PlaylistInfo(name) == [name |-> name, mtime |-> TimePointMin]

\* PlaylistVector::UpdateOrInsert
UpdateOrInsert(v, pi) ==
    IF \E i \in 1..Len(v) : v[i].name = pi.name
    THEN [i \in 1..Len(v) |->
            IF v[i].name = pi.name THEN [v[i] EXCEPT !.mtime = pi.mtime] ELSE v[i]]
    ELSE Append(v, pi)

DecDigits == <<"0","1","2","3","4","5","6","7","8","9">>

isdigit(c) == \E d \in 1..10 : DecDigits[d] = c

digitValue(c) == (CHOOSE d \in 1..10 : DecDigits[d] = c) - 1

isspace(c) == c = " "

RECURSIVE FormatNat(_)
FormatNat(n) ==
    IF n < 10 THEN << DecDigits[n + 1] >>
    ELSE Append(FormatNat(n \div 10), DecDigits[(n % 10) + 1])

\* printf("%li", n)
FormatLong(n) == IF n < 0 THEN <<"-">> \o FormatNat(0 - n) ELSE FormatNat(n)

RECURSIVE strtolDigits(_, _, _)
strtolDigits(s, i, acc) ==
    IF i <= Len(s) /\ isdigit(s[i])
    THEN strtolDigits(s, i + 1, acc * 10 + digitValue(s[i]))
    ELSE acc

RECURSIVE StripLeft(_)
\* util/StringStrip: drops the leading white space
StripLeft(s) ==
    IF Len(s) > 0 /\ isspace(s[1]) THEN StripLeft(Tail(s)) ELSE s

\* strtol(s, nullptr, 10)
strtol(s) ==
    LET t == StripLeft(s)
    IN  IF Len(t) > 0 /\ t[1] = "-" THEN 0 - strtolDigits(t, 2, 0)
        ELSE IF Len(t) > 0 /\ t[1] = "+" THEN strtolDigits(t, 2, 0)
        ELSE strtolDigits(t, 1, 0)

PLAYLIST_META_BEGIN == <<"p","l","a","y","l","i","s","t","_","b","e","g","i","n",":"," ">>
PLAYLIST_END == <<"p","l","a","y","l","i","s","t","_","e","n","d">>
MTIME == <<"m","t","i","m","e">>
MTIME_FORMAT == <<"m","t","i","m","e",":"," ">>
UNKNOWN_LINE == <<"u","n","k","n","o","w","n"," ","l","i","n","e"," ","i","n"," ","d","b",":"," ">>

RECURSIVE SaveFromAlways(_, _)
\* SaveFrom writing the mtime line without the IsNegative test
SaveFromAlways(v, i) ==
    IF i > Len(v) THEN <<>>
    ELSE LET pi == v[i]
         IN  << PLAYLIST_META_BEGIN \o pi.name >>
             \o << MTIME_FORMAT \o FormatLong(to_time_t(pi.mtime)) >>
             \o << PLAYLIST_END >>
             \o SaveFromAlways(v, i + 1)

RECURSIVE SaveFrom(_, _)
\* the loop at lines 35-41
SaveFrom(v, i) ==
    IF i > Len(v) THEN <<>>
    ELSE LET pi == v[i]
         IN  << PLAYLIST_META_BEGIN \o pi.name >>
             \o (IF ~IsNegative(pi.mtime)
                 THEN << MTIME_FORMAT \o FormatLong(to_time_t(pi.mtime)) >>
                 ELSE <<>>)
             \o << PLAYLIST_END >>
             \o SaveFrom(v, i + 1)

playlist_vector_save(v) == SaveFrom(v, 1)

RECURSIVE LoadLoop(_, _, _)
\* the loop at lines 52-67 reading file from position pos; pm is the record
\* under construction.  Yields the record and position, or the error thrown.
LoadLoop(file, pos, pm) ==
    IF pos > Len(file)
    THEN [error |-> <<>>, thrown |-> FALSE, pm |-> pm, pos |-> pos]
    ELSE IF strcmpEq(file[pos], PLAYLIST_END)
    THEN [error |-> <<>>, thrown |-> FALSE, pm |-> pm, pos |-> pos + 1]
    ELSE
      LET line  == file[pos]
          colon == strchr(line, ":")
      IN  IF colon = 0 \/ colon = 1
          THEN [error |-> UNKNOWN_LINE \o line, thrown |-> TRUE,
                pm |-> pm, pos |-> pos + 1]
          ELSE
            \* *colon++ = 0 ends the string in the line buffer at the colon
            LET cut   == SubSeq(line, 1, colon - 1)
                value == StripLeft(SubSeq(line, colon + 1, Len(line)))
            IN  IF strcmpEq(cut, MTIME)
                THEN LoadLoop(file, pos + 1,
                              [pm EXCEPT !.mtime = from_time_t(strtol(value))])
                ELSE [error |-> UNKNOWN_LINE \o cut, thrown |-> TRUE,
                      pm |-> pm, pos |-> pos + 1]

playlist_metadata_load(file, pos, v, name) ==
    LET r == LoadLoop(file, pos, PlaylistInfo(name))
    IN  IF r.thrown
        THEN r @@ [pv |-> v]
        ELSE r @@ [pv |-> UpdateOrInsert(v, r.pm)]

MaxPlaylists == 2
MaxLines == 3

PlaylistNames == { <<"a">>, <<"F","a","v">>, <<"b"," ","c">> }
MTimes == { TimePointMin, -5, 0, 1000 }
\* the names a section written by hand carries
EditNames == { <<"a">>, <<"b"," ","c">> }
PlaylistVectors ==
    { v \in SeqsUpTo([name : PlaylistNames, mtime : MTimes], MaxPlaylists) :
        \A i, j \in 1..Len(v) : i # j => v[i].name # v[j].name }

\* lines a hand-edited or damaged section may hold
BodyLines ==
    { PLAYLIST_END,
      <<"m","t","i","m","e",":"," ","1","0","0","0">>,
      <<"m","t","i","m","e",":","-","5">>,
      <<"b","o","g","u","s",":"," ","1">>,
      <<"n","o","c","o","l","o","n">>,
      <<":","x">> }

HasPrefix(s, p) == Len(s) >= Len(p) /\ SubSeq(s, 1, Len(p)) = p

PlaylistInit ==
    /\ ppc = "start"
    /\ pv \in PlaylistVectors
    /\ stream = <<>>
    /\ streamFrom = "none"
    /\ filePos = 1
    /\ loadName = <<>>
    /\ loadError = <<>>
    /\ loaded = <<>>

\* the vector is written out; a new process will read it into an empty vector
Save ==
    /\ ppc = "start"
    /\ stream' = playlist_vector_save(pv)
    /\ streamFrom' = "save"
    /\ filePos' = 1
    /\ loaded' = <<>>
    /\ ppc' = "file"
    /\ UNCHANGED <<pv, loadName, loadError>>
    /\ UNCHANGED <<buildVars, queryVars, aoVars>>

\* a section written by hand is read into the vector in memory
Edit ==
    /\ ppc = "start"
    /\ \E name \in EditNames, body \in SeqsUpTo(BodyLines, MaxLines) :
          stream' = << PLAYLIST_META_BEGIN \o name >> \o body
    /\ streamFrom' = "edit"
    /\ filePos' = 1
    /\ loaded' = pv
    /\ ppc' = "file"
    /\ UNCHANGED <<pv, loadName, loadError>>
    /\ UNCHANGED <<buildVars, queryVars, aoVars>>

\* the database loader meets a section marker and calls playlist_metadata_load
LoadSection ==
    /\ ppc = "file"
    /\ filePos <= Len(stream)
    /\ HasPrefix(stream[filePos], PLAYLIST_META_BEGIN)
    /\ LET name == SubSeq(stream[filePos], Len(PLAYLIST_META_BEGIN) + 1,
                          Len(stream[filePos]))
           r == playlist_metadata_load(stream, filePos + 1, loaded, name)
       IN  /\ loadName' = name
           /\ loaded' = r.pv
           /\ filePos' = r.pos
           /\ loadError' = r.error
           /\ ppc' = IF r.thrown THEN "failed" ELSE "file"
    /\ UNCHANGED <<pv, stream, streamFrom>>
    /\ UNCHANGED <<buildVars, queryVars, aoVars>>

\* the loader meets a line that starts no section
LoadMalformed ==
    /\ ppc = "file"
    /\ filePos <= Len(stream)
    /\ ~HasPrefix(stream[filePos], PLAYLIST_META_BEGIN)
    /\ ppc' = "malformed"
    /\ loadError' = stream[filePos]
    /\ UNCHANGED <<pv, stream, streamFrom, filePos, loadName, loaded>>
    /\ UNCHANGED <<buildVars, queryVars, aoVars>>

LoadEnd ==
    /\ ppc = "file"
    /\ filePos > Len(stream)
    /\ ppc' = "loaded"
    /\ UNCHANGED <<pv, stream, streamFrom, filePos, loadName, loadError, loaded>>
    /\ UNCHANGED <<buildVars, queryVars, aoVars>>

PlaylistNext == Save \/ Edit \/ LoadSection \/ LoadMalformed \/ LoadEnd

----------------------------------------------------------------------------
(* AoOutputPlugin.cxx.  aoLive is the set of AoOutput objects that exist   *)
(* after a call returned, aoInitialized tells whether libao is between     *)
(* ao_initialize() and ao_shutdown().                                      *)

MaxOutputs == 2
MaxRef == 3

RECURSIVE SplitFrom(_, _, _, _)
\* the tokens of s from position i on, cur being the token under way
SplitFrom(s, d, i, cur) ==
    IF i > Len(s) THEN << cur >>
    ELSE IF s[i] = d THEN << cur >> \o SplitFrom(s, d, i + 1, <<>>)
    ELSE SplitFrom(s, d, i + 1, Append(cur, s[i]))

\* g_strsplit(s, d, max_tokens) for max_tokens 0 (no limit) or 2
g_strsplit(s, d, max_tokens) ==
    IF Len(s) = 0 THEN <<>>
    ELSE IF max_tokens = 2 /\ strchr(s, d) # 0
    THEN << SubSeq(s, 1, strchr(s, d) - 1), SubSeq(s, strchr(s, d) + 1, Len(s)) >>
    ELSE IF max_tokens = 2 THEN << s >>
    ELSE SplitFrom(s, d, 1, <<>>)

DEFAULT == <<"d","e","f","a","u","l","t">>

\* libao: the drivers it knows by name
ao_driver_id(value) ==
    IF strcmpEq(value, <<"n","u","l","l">>) THEN 0
    ELSE IF strcmpEq(value, <<"o","s","s">>) THEN 1
    ELSE -1

NoOptions == << "nullptr" >>

DriverNames == { DEFAULT, <<"n","u","l","l">>, <<"o","s","s">>, <<"b","a","d">> }
OptionStrings ==
    { NoOptions, <<"a","=","b">>, <<"a","=","b",";","c","=","d">>, <<"a","=","b",";","c">> }
ConfigParams == [driver : DriverNames, options : OptionStrings]
\* what the environment answers: ao_base_init, ao_default_driver_id, ao_driver_info
Environments == [baseOk : BOOLEAN, defaultDriver : {-1, 0}, infoOk : BOOLEAN]

RECURSIVE ParseOptions(_, _, _)
\* the loop at lines 136-150: the options appended, or the failure
ParseOptions(opts, i, acc) ==
    IF i > Len(opts) THEN [ok |-> TRUE, options |-> acc]
    ELSE LET key_value == g_strsplit(opts[i], "=", 2)
         IN  IF Len(key_value) < 2
             THEN [ok |-> FALSE, options |-> acc]
             ELSE ParseOptions(opts, i + 1,
                               Append(acc, [key |-> key_value[1], value |-> key_value[2]]))

\* AoOutput::Configure on the library state g = [ref, initialized]
Configure(g, param, env) ==
    LET g1 == IF g.ref = 0 THEN [g EXCEPT !.initialized = TRUE] ELSE g
        g2 == [g1 EXCEPT !.ref = @ + 1]
        driver == IF strcmpEq(param.driver, DEFAULT)
                  THEN env.defaultDriver
                  ELSE ao_driver_id(param.driver)
    IN  IF driver < 0
        THEN [g |-> g2, ok |-> FALSE, why |-> "driver", driver |-> driver, options |-> <<>>]
        ELSE IF ~env.infoOk
        THEN [g |-> g2, ok |-> FALSE, why |-> "info", driver |-> driver, options |-> <<>>]
        ELSE IF param.options # NoOptions
        THEN LET r == ParseOptions(g_strsplit(param.options, ";", 0), 1, <<>>)
             IN  [g |-> g2, ok |-> r.ok, why |-> "options", driver |-> driver,
                  options |-> r.options]
        ELSE [g |-> g2, ok |-> TRUE, why |-> "options", driver |-> driver, options |-> <<>>]

AoInit ==
    /\ ao_output_ref = 0
    /\ aoLive = {}
    /\ aoInitialized = FALSE
    /\ aoLast = "none"

\* ao_output_init: nullptr when Initialize or Configure fails
ao_output_init ==
    /\ Cardinality(aoLive) < MaxOutputs
    /\ ao_output_ref < MaxRef
    /\ \E param \in ConfigParams, env \in Environments :
          IF ~env.baseOk
          THEN /\ aoLast' = "initialize failed"
               /\ UNCHANGED <<ao_output_ref, aoLive, aoInitialized>>
          ELSE LET r == Configure([ref |-> ao_output_ref, initialized |-> aoInitialized],
                                  param, env)
                   id == CHOOSE n \in 1..MaxOutputs : \A o \in aoLive : o.id # n
               IN  /\ ao_output_ref' = r.g.ref
                   /\ aoInitialized' = r.g.initialized
                   /\ IF r.ok
                      THEN /\ aoLive' = aoLive \cup
                                  {[id |-> id, driver |-> r.driver, options |-> r.options]}
                           /\ aoLast' = "created"
                      ELSE /\ aoLive' = aoLive
                           /\ aoLast' = r.why
    /\ UNCHANGED <<buildVars, queryVars, plVars>>

ao_output_finish ==
    /\ \E ad \in aoLive :
          /\ aoLive' = aoLive \ {ad}
          /\ ao_output_ref' = ao_output_ref - 1
          /\ aoInitialized' = IF ao_output_ref - 1 = 0 THEN FALSE ELSE aoInitialized
    /\ aoLast' = "finished"
    /\ UNCHANGED <<buildVars, queryVars, plVars>>

AoNext == ao_output_init \/ ao_output_finish

----------------------------------------------------------------------------
(* Properties of the criterion set construction (SpecBuild) *)

NumPairs == Len(argArray) \div 2
KeyOf(k) == argArray[2 * k + 1]
ValueOf(k) == argArray[2 * k + 2]
Resolves(k) == getLocateTagItemType(KeyOf(k)) >= 0
EvenArgs == Len(argArray) % 2 = 0
\* pair k is the first whose key does not resolve
FirstUnresolved(k) ==
    /\ k \in 0..(NumPairs - 1)
    /\ ~Resolves(k)
    /\ \A j \in 0..(k - 1) : Resolves(j)
NeedleBlocks == { p \in 1..Len(heap) : heap[p].kind = "needle" }
ArrayBlocks == { p \in 1..Len(heap) : heap[p].kind = "array" }

\* C1: when the key of pair k is the first that does not resolve, the call
\* returns -1, has made and freed exactly once the copies of the needles of
\* pairs 0..k-1 and the array, and has set the caller's pointer to NULL.
C1_AtomicFailure ==
    (bpc = "built" /\ EvenArgs) =>
        \A k \in 0..(NumPairs - 1) :
            FirstUnresolved(k) =>
                /\ buildRet = -1
                /\ arrayRet = NULL
                /\ Cardinality(ArrayBlocks) = 1
                /\ Cardinality(NeedleBlocks) = k
                /\ \A p \in 1..Len(heap) : heap[p].frees = 1
                /\ \A j \in 0..(k - 1) :
                      \E p \in NeedleBlocks : heap[p].str = ValueOf(j)
                /\ \A p \in ArrayBlocks :
                      \A j \in 0..(k - 1) :
                          /\ heap[p].items[j + 1].needle \in NeedleBlocks
                          /\ heap[heap[p].items[j + 1].needle].str = ValueOf(j)
                          /\ \A j2 \in 0..(k - 1) :
                                j2 # j => heap[p].items[j2 + 1].needle
                                          # heap[p].items[j + 1].needle

C1_Witness ==
    /\ bpc = "built"
    /\ Len(argArray) = 4
    /\ FirstUnresolved(1)
    /\ Cardinality(NeedleBlocks) = 1

\* C2: an even-length list whose keys all resolve yields as many criteria as
\* pairs, criterion i holding the type of key i and its own live copy of
\* value i; an odd-length list yields -1 with nothing allocated and no key
\* resolved.
C2_BuildResult ==
    bpc = "built" =>
        /\ (EvenArgs /\ \A k \in 0..(NumPairs - 1) : Resolves(k)) =>
              /\ buildRet = NumPairs
              /\ NumPairs > 0 =>
                    /\ arrayRet \in ArrayBlocks
                    /\ heap[arrayRet].frees = 0
                    /\ Len(heap[arrayRet].items) = NumPairs
                    /\ \A k \in 0..(NumPairs - 1) :
                          LET item == heap[arrayRet].items[k + 1]
                          IN  /\ item.tagType = getLocateTagItemType(KeyOf(k))
                              /\ item.needle \in NeedleBlocks
                              /\ heap[item.needle].str = ValueOf(k)
                              /\ heap[item.needle].frees = 0
                              /\ \A k2 \in 0..(NumPairs - 1) :
                                    k2 # k =>
                                      heap[arrayRet].items[k2 + 1].needle # item.needle
        /\ ~EvenArgs =>
              /\ buildRet = -1
              /\ heap = <<>>
              /\ calls = <<>>
              /\ arrayRet = CALLER

C2_Witness ==
    /\ bpc = "built"
    /\ Len(argArray) = 4
    /\ buildRet = 2
    /\ heap[arrayRet].items[1].tagType = 0
    /\ heap[arrayRet].items[2].tagType = LOCATE_TAG_ANY_TYPE

----------------------------------------------------------------------------
(* Properties of the operations (SpecQuery, SpecList) *)

RootExists == getDirectory(op.root) # "none"

\* the songs a traversal of the root named in op visits
Visited ==
    IF RootExists
    THEN { ev.song : ev \in { e \in { traverseOrder(getDirectory(op.root))[i] :
                 i \in 1..Len(traverseOrder(getDirectory(op.root))) } : e.song # 0 } }
    ELSE {}

ItemsOf(song) ==
    IF songTags[song].present
    THEN { songTags[song].items[i] : i \in 1..Len(songTags[song].items) }
    ELSE {}

\* the exact matcher, as the claim words it
ExactMatch(song, crit) ==
    CASE crit.tagType = LOCATE_TAG_FILE_TYPE -> crit.needle = getSongUrl(song)
      [] crit.tagType = LOCATE_TAG_ANY_TYPE ->
            \/ crit.needle = getSongUrl(song)
            \/ \E it \in ItemsOf(song) : it.value = crit.needle
      [] OTHER ->
            \E it \in ItemsOf(song) : it.type = crit.tagType /\ it.value = crit.needle

ExactMatchAll(song) == \A i \in 1..Len(op.items) : ExactMatch(song, op.items[i])

Emitted(kind) == { out[i].val : i \in { j \in 1..Len(out) : out[j].kind = kind } }

SongsIn(c) ==
    { c.out[i].val : i \in { j \in 1..Len(c.out) : c.out[j].kind = "song" } }

\* C3 (as claimed): an operation whose root does not exist returns the
\* traversal's failure -1, which no successful result equals.
C3_FailureSurfaced ==
    (qpc = "done" /\ ~RootExists) => ret = -1

\* the part of C3 that holds: every operation but count and sum-duration
C3_FailureSurfacedElsewhere ==
    (qpc = "done" /\ ~RootExists /\ op.name \notin {"count", "sum"}) => ret = -1

\* C4: find emits exactly the visited songs that every criterion matches
\* exactly: FILE by the URL, ANY by the URL or any item value, another type
\* by the value of an item of that type.
C4_FindExact ==
    (qpc = "done" /\ op.name = "find") =>
        /\ \A i \in 1..Len(out) : out[i].kind = "song"
        /\ \A song \in SongIds :
              (getSongUrl(song) \in Emitted("song"))
                  <=> (song \in Visited /\ ExactMatchAll(song))
        /\ \A i, j \in 1..Len(out) : i # j => out[i] # out[j]

C4_Witness ==
    /\ qpc = "done"
    /\ op.name = "find"
    /\ op.root = NoPath
    /\ Len(op.items) = 2
    /\ op.items[1].tagType = LOCATE_TAG_FILE_TYPE
    /\ op.items[2].tagType = 0
    /\ Len(out) = 1
    /\ \E s \in Visited : ~songTags[s].present

\* C5: what find emits for a root and a criterion set, search emits too.
C5_FindWithinSearch ==
    /\ (qpc = "done" /\ op.name = "find") =>
          Emitted("song") \subseteq
              SongsIn(searchForSongsIn(Context, op.root, Len(op.items), op.items))
    /\ (qpc = "done" /\ op.name = "search") =>
          SongsIn(findSongsIn(Context, op.root, Len(op.items), op.items))
              \subseteq Emitted("song")

C5_Witness ==
    /\ qpc = "done"
    /\ op.name = "search"
    /\ Len(op.items) = 2
    /\ SongsIn(findSongsIn(Context, op.root, Len(op.items), op.items)) # {}
    /\ SongsIn(findSongsIn(Context, op.root, Len(op.items), op.items))
          # Emitted("song")

\* C6: one listAllUniqueTags call emits no value twice, and only values of
\* items of the requested type on visited songs that match every conditional
\* exactly (the URL of such a song when the type is FILE), whatever calls
\* came before.
C6_UniqueValues ==
    (qpc = "done" /\ op.name = "list") =>
        /\ \A i, j \in 1..Len(out) : i # j => out[i].val # out[j].val
        /\ \A i \in 1..Len(out) :
              \/ /\ out[i].kind = "tag"
                 /\ out[i].type = op.type
                 /\ \E song \in Visited :
                       /\ ExactMatchAll(song)
                       /\ \E it \in ItemsOf(song) :
                             it.type = op.type /\ it.value = out[i].val
              \/ /\ out[i].kind = "file"
                 /\ op.type = LOCATE_TAG_FILE_TYPE
                 /\ \E song \in Visited :
                       ExactMatchAll(song) /\ getSongUrl(song) = out[i].val

C6_Witness ==
    /\ qpc = "done"
    /\ op.name = "list"
    /\ op.type = 0
    /\ Len(op.items) = 1
    /\ Len(out) = 1
    /\ Cardinality({ it.value : it \in { x \in UNION { ItemsOf(s) : s \in SongIds } :
                                           x.type = 0 } }) = 2
    /\ tagTracker[1] # <<>>

ValidTagType(type) == 0 <= type /\ type < TAG_NUM_OF_ITEM_TYPES

Called(fn) == \E i \in 1..Len(trackerCalls) : trackerCalls[i].fn = fn

\* C9 (as claimed): the reset and the drain happen exactly for the types
\* 0 .. TAG_NUM_OF_ITEM_TYPES - 1, and no other type emits a collected value.
C9_ResetDrainRange ==
    (qpc = "done" /\ op.name = "list") =>
        /\ Called("reset") <=> ValidTagType(op.type)
        /\ Called("print") <=> ValidTagType(op.type)
        /\ ~ValidTagType(op.type) => Emitted("tag") = {}

----------------------------------------------------------------------------
(* Properties of the playlist metadata (SpecPlaylist) *)

LinesWith(prefix) == { i \in 1..Len(stream) : HasPrefix(stream[i], prefix) }

\* the line a failed playlist_metadata_load read last
OffendingLine == stream[filePos - 1]

\* C7 (as claimed): a section holding a line that is neither an mtime line
\* nor the terminator fails with a message carrying the whole line, and the
\* vector is as it was.
C7_ErrorNamesLine ==
    ppc = "failed" =>
        /\ loadError = UNKNOWN_LINE \o OffendingLine
        /\ loaded = pv

\* the part of C7 that holds: the load fails and the vector is as it was
C7_VectorUnchanged ==
    ppc = "failed" => (HasPrefix(loadError, UNKNOWN_LINE) /\ loaded = pv)

SameTimestamp(a, b) ==
    IF IsNegative(a) THEN IsNegative(b) ELSE a = b

----------------------------------------------------------------------------
(* Properties of the libao reference count (SpecAo) *)

\* C10 (as claimed): the counter equals the number of live outputs and
\* libao is initialised exactly while there is one.
C10_RefCountsLive ==
    /\ ao_output_ref = Cardinality(aoLive)
    /\ aoInitialized <=> Cardinality(aoLive) >= 1

\* what the code keeps: the counter never falls below the number of live
\* outputs, and libao is initialised exactly while the counter is positive
C10_RefBoundsLive ==
    /\ ao_output_ref >= Cardinality(aoLive)
    /\ aoInitialized <=> ao_output_ref > 0

----------------------------------------------------------------------------
(* Specifications: one per unit, the other units at rest *)

BuildNext == Build \/ Release \/ BuildDone

QueryRest ==
    /\ qpc = "idle"
    /\ songTags = FixedTags
    /\ tagTracker = TrackerEmpty
    /\ trackerCalls = <<>>
    /\ op = NoOp
    /\ ret = 0
    /\ out = <<>>
    /\ playlist = <<>>

PlaylistRest ==
    /\ ppc = "start"
    /\ pv = <<>>
    /\ stream = <<>>
    /\ streamFrom = "none"
    /\ filePos = 1
    /\ loadName = <<>>
    /\ loadError = <<>>
    /\ loaded = <<>>

InitBuild == BuildInit /\ QueryRest /\ PlaylistRest /\ AoInit
SpecBuild == InitBuild /\ [][BuildNext]_vars

InitQuery == BuildInit /\ QueryInit /\ PlaylistRest /\ AoInit
SpecQuery == InitQuery /\ [][QueryNext]_vars

InitList == BuildInit /\ ListInit /\ PlaylistRest /\ AoInit
SpecList == InitList /\ [][ListNext]_vars

InitPlaylist == BuildInit /\ QueryRest /\ PlaylistInit /\ AoInit
SpecPlaylist == InitPlaylist /\ [][PlaylistNext]_vars

InitAo == BuildInit /\ QueryRest /\ PlaylistRest /\ AoInit
SpecAo == InitAo /\ [][AoNext]_vars

====
